---------------------------- MODULE Spec2Model ----------------------------
(***************************************************************************)
(* Model of scripts/enrich-font-catalog.py: the batch pass that reads the  *)
(* crawled font catalog, filters and enriches every record (category,      *)
(* tags, popularity), sorts the result, aggregates statistics and writes   *)
(* the enriched catalog.                                                   *)
(*                                                                         *)
(* Text is modelled as a sequence of Unicode code points, so that case     *)
(* folding, trimming, substring search and code-point ordering are         *)
(* computed rather than assumed.  JSON values carry their type, a JSON     *)
(* object is a function whose DOMAIN is the set of keys that are present.  *)
(***************************************************************************)
EXTENDS Integers, Sequences, FiniteSets, TLC

VARIABLES
    in_file,      \* the input catalog file: missing, malformed or a parsed document
    out_file,     \* the output path: untouched, open (truncated), partial or complete
    pc,           \* position of main()
    fonts_raw,    \* main: fonts_raw
    idx,          \* main: number of records the for loop has consumed
    enriched,     \* main: enriched
    skipped,      \* main: skipped
    cat_counts,   \* main: cat_counts, as a sequence of entries in insertion order
    tag_counts,   \* main: tag_counts, as a sequence of entries in insertion order
    exit_status,  \* process exit status, -1 while running
    error,        \* the uncaught exception or fatal message, "" when none
    fn_font,      \* argument of a direct call of one of the per-record functions
    fn_name,      \* which function was called, "" before the call
    fn_result     \* what that call returned or raised

vars == <<in_file, out_file, pc, fonts_raw, idx, enriched, skipped,
          cat_counts, tag_counts, exit_status, error,
          fn_font, fn_name, fn_result>>

main_vars == <<in_file, out_file, pc, fonts_raw, idx, enriched, skipped,
               cat_counts, tag_counts, exit_status, error>>

fn_vars == <<fn_font, fn_name, fn_result>>

-----------------------------------------------------------------------------
(* Bounds *)

\* Longest input "fonts" array that is enumerated.
MaxFonts == 3

-----------------------------------------------------------------------------
(* JSON / Python values *)

JNull    == [t |-> "null"]
JBool(b) == [t |-> "bool", v |-> b]
JInt(n)  == [t |-> "int", v |-> n]
JStr(s)  == [t |-> "str", v |-> s]
JList(l) == [t |-> "list", v |-> l]

\* dict.get(key, default)
Get(d, key, default) == IF key \in DOMAIN d THEN d[key] ELSE default

\* Python truth value of a JSON value
Truthy(x) ==
    CASE x.t = "null" -> FALSE
      [] x.t = "bool" -> x.v
      [] x.t = "int"  -> x.v # 0
      [] x.t = "str"  -> Len(x.v) > 0
      [] x.t = "list" -> Len(x.v) > 0

\* Outcome of a call: a returned value or an uncaught exception.
Return(val) == [kind |-> "return", val |-> val]
Raise(exc)  == [kind |-> "raise", exc |-> exc]

\* The value None returned by enrich_font for an excluded record.
None == [t |-> "none"]

-----------------------------------------------------------------------------
(* Text primitives *)

\* str.isspace() for one code point
IsSpace(c) ==
    \/ c \in 9..13
    \/ c \in 28..32
    \/ c \in {133, 160, 5760, 8232, 8233, 8239, 8287, 12288}
    \/ c \in 8192..8202

\* str.lower() / case folding under re.IGNORECASE for one code point
\* (Latin letters, ASCII and full-width; kana and kanji have no case).
LowerChar(c) ==
    IF c \in 65..90 \/ c \in 65313..65338 THEN c + 32 ELSE c

Lower(s) == [i \in 1..Len(s) |-> LowerChar(s[i])]

\* str.strip()
Strip(s) ==
    LET keep == {i \in 1..Len(s) : ~IsSpace(s[i])}
    IN  IF keep = {} THEN <<>>
        ELSE LET lo == CHOOSE i \in keep : \A j \in keep : i <= j
                 hi == CHOOSE i \in keep : \A j \in keep : j <= i
             IN  SubSeq(s, lo, hi)

\* Python's < on str: lexicographic on code points
RECURSIVE StrLess(_, _)
StrLess(a, b) ==
    IF Len(b) = 0 THEN FALSE
    ELSE IF Len(a) = 0 THEN TRUE
    ELSE IF Head(a) # Head(b) THEN Head(a) < Head(b)
    ELSE StrLess(Tail(a), Tail(b))

\* pattern.search(text) for a pattern that is an alternation of literals
\* compiled with re.IGNORECASE: some alternative occurs somewhere in text.
Search(alts, text) ==
    LET folded == Lower(text)
    IN  \E a \in alts :
            \E i \in 1..(Len(folded) - Len(a) + 1) :
                SubSeq(folded, i, i + Len(a) - 1) = Lower(a)

\* str(x) as used by an f-string
Format(x) ==
    CASE x.t = "str"  -> x.v
      [] x.t = "null" -> <<78, 111, 110, 101>>    \* "None"

\* A lone surrogate cannot be encoded as UTF-8.
HasSurrogate(s) == \E i \in 1..Len(s) : s[i] \in 55296..57343

-----------------------------------------------------------------------------
(* Rule tables *)

\* src line 39: source-site category -> FontCategory (keys as code points).
FONTFREE_CATEGORY_MAP == <<
    \* "kakugo": "sans"
    [key |-> <<107, 97, 107, 117, 103, 111>>, category |-> "sans"],
    \* "gothic": "sans"
    [key |-> <<103, 111, 116, 104, 105, 99>>, category |-> "sans"],
    \* "sans": "sans"
    [key |-> <<115, 97, 110, 115>>, category |-> "sans"],
    \* "mincho": "serif"
    [key |-> <<109, 105, 110, 99, 104, 111>>, category |-> "serif"],
    \* "serif": "serif"
    [key |-> <<115, 101, 114, 105, 102>>, category |-> "serif"],
    \* "marugo": "sans"
    [key |-> <<109, 97, 114, 117, 103, 111>>, category |-> "sans"],
    \* "round": "sans"
    [key |-> <<114, 111, 117, 110, 100>>, category |-> "sans"],
    \* "tegaki": "handwriting"
    [key |-> <<116, 101, 103, 97, 107, 105>>, category |-> "handwriting"],
    \* "handwriting": "handwriting"
    [key |-> <<104, 97, 110, 100, 119, 114, 105, 116, 105, 110, 103>>, category |-> "handwriting"],
    \* "script": "handwriting"
    [key |-> <<115, 99, 114, 105, 112, 116>>, category |-> "handwriting"],
    \* "fude": "handwriting"
    [key |-> <<102, 117, 100, 101>>, category |-> "handwriting"],
    \* "brush": "handwriting"
    [key |-> <<98, 114, 117, 115, 104>>, category |-> "handwriting"],
    \* "kawaii": "display"
    [key |-> <<107, 97, 119, 97, 105, 105>>, category |-> "display"],
    \* "pop": "display"
    [key |-> <<112, 111, 112>>, category |-> "display"],
    \* "design": "display"
    [key |-> <<100, 101, 115, 105, 103, 110>>, category |-> "display"],
    \* "display": "display"
    [key |-> <<100, 105, 115, 112, 108, 97, 121>>, category |-> "display"],
    \* "pixel": "display"
    [key |-> <<112, 105, 120, 101, 108>>, category |-> "display"],
    \* "dot": "display"
    [key |-> <<100, 111, 116>>, category |-> "display"],
    \* "horror": "display"
    [key |-> <<104, 111, 114, 114, 111, 114>>, category |-> "display"],
    \* "monospace": "monospace"
    [key |-> <<109, 111, 110, 111, 115, 112, 97, 99, 101>>, category |-> "monospace"]
    >>

\* src line 63: ordered name/description rules; alts are the alternatives of
\* each pattern, matched case-insensitively anywhere in the text.
NAME_CATEGORY_RULES == <<
    \* r"ゴシック|gothic|ゴチック|角" -> sans
    [alts |-> {<<12468, 12471, 12483, 12463>>,
              <<103, 111, 116, 104, 105, 99>>,
              <<12468, 12481, 12483, 12463>>,
              <<35282>>},
     category |-> "sans"],
    \* r"明朝|mincho|serif" -> serif
    [alts |-> {<<26126, 26397>>,
              <<109, 105, 110, 99, 104, 111>>,
              <<115, 101, 114, 105, 102>>},
     category |-> "serif"],
    \* r"丸|round|maru|ラウンド" -> sans
    [alts |-> {<<20024>>,
              <<114, 111, 117, 110, 100>>,
              <<109, 97, 114, 117>>,
              <<12521, 12454, 12531, 12489>>},
     category |-> "sans"],
    \* r"手書|tegaki|handwrit|script|手書き" -> handwriting
    [alts |-> {<<25163, 26360>>,
              <<116, 101, 103, 97, 107, 105>>,
              <<104, 97, 110, 100, 119, 114, 105, 116>>,
              <<115, 99, 114, 105, 112, 116>>,
              <<25163, 26360, 12365>>},
     category |-> "handwriting"],
    \* r"筆|fude|brush|毛筆|楷書|行書|草書" -> handwriting
    [alts |-> {<<31558>>,
              <<102, 117, 100, 101>>,
              <<98, 114, 117, 115, 104>>,
              <<27611, 31558>>,
              <<26999, 26360>>,
              <<34892, 26360>>,
              <<33609, 26360>>},
     category |-> "handwriting"],
    \* r"ポップ|pop|kawaii|かわいい" -> display
    [alts |-> {<<12509, 12483, 12503>>,
              <<112, 111, 112>>,
              <<107, 97, 119, 97, 105, 105>>,
              <<12363, 12431, 12356, 12356>>},
     category |-> "display"],
    \* r"ドット|dot|pixel|ピクセル|レトロ" -> display
    [alts |-> {<<12489, 12483, 12488>>,
              <<100, 111, 116>>,
              <<112, 105, 120, 101, 108>>,
              <<12500, 12463, 12475, 12523>>,
              <<12524, 12488, 12525>>},
     category |-> "display"],
    \* r"デザイン|display|装飾|ファンシー|fancy" -> display
    [alts |-> {<<12487, 12470, 12452, 12531>>,
              <<100, 105, 115, 112, 108, 97, 121>>,
              <<35013, 39166>>,
              <<12501, 12449, 12531, 12471, 12540>>,
              <<102, 97, 110, 99, 121>>},
     category |-> "display"],
    \* r"等幅|mono|コード|code" -> monospace
    [alts |-> {<<31561, 24133>>,
              <<109, 111, 110, 111>>,
              <<12467, 12540, 12489>>,
              <<99, 111, 100, 101>>},
     category |-> "monospace"]
    >>

\* src line 80: ordered tag rules; every matching rule contributes its tags.
\* The character class in rule 14 is expanded into its two alternatives.
TAG_RULES == <<
    \* r"手書き|カジュアル|手書" -> 手書き風, カジュアル
    [alts |-> {<<25163, 26360, 12365>>,
              <<12459, 12472, 12517, 12450, 12523>>,
              <<25163, 26360>>},
     tag_list |-> <<<<25163, 26360, 12365, 39080>>, <<12459, 12472, 12517, 12450, 12523>>>>],
    \* r"ポップ|楽しい|fun|pop|ポップ体" -> ポップ
    [alts |-> {<<12509, 12483, 12503>>,
              <<27005, 12375, 12356>>,
              <<102, 117, 110>>,
              <<112, 111, 112>>,
              <<12509, 12483, 12503, 20307>>},
     tag_list |-> <<<<12509, 12483, 12503>>>>],
    \* r"レトロ|昭和|vintage|retro|懐かし" -> レトロ
    [alts |-> {<<12524, 12488, 12525>>,
              <<26157, 21644>>,
              <<118, 105, 110, 116, 97, 103, 101>>,
              <<114, 101, 116, 114, 111>>,
              <<25040, 12363, 12375>>},
     tag_list |-> <<<<12524, 12488, 12525>>>>],
    \* r"かわいい|可愛い|cute|kawaii|丸み|丸い|ラウンド" -> かわいい
    [alts |-> {<<12363, 12431, 12356, 12356>>,
              <<21487, 24859, 12356>>,
              <<99, 117, 116, 101>>,
              <<107, 97, 119, 97, 105, 105>>,
              <<20024, 12415>>,
              <<20024, 12356>>,
              <<12521, 12454, 12531, 12489>>},
     tag_list |-> <<<<12363, 12431, 12356, 12356>>>>],
    \* r"力強い|太い|極太|bold|heavy|ウェイト|力強|インパクト" -> 力強い, インパクト
    [alts |-> {<<21147, 24375, 12356>>,
              <<22826, 12356>>,
              <<26997, 22826>>,
              <<98, 111, 108, 100>>,
              <<104, 101, 97, 118, 121>>,
              <<12454, 12455, 12452, 12488>>,
              <<21147, 24375>>,
              <<12452, 12531, 12497, 12463, 12488>>},
     tag_list |-> <<<<21147, 24375, 12356>>, <<12452, 12531, 12497, 12463, 12488>>>>],
    \* r"エレガント|上品|elegant|優雅|美し" -> エレガント, 高級
    [alts |-> {<<12456, 12524, 12460, 12531, 12488>>,
              <<19978, 21697>>,
              <<101, 108, 101, 103, 97, 110, 116>>,
              <<20778, 38597>>,
              <<32654, 12375>>},
     tag_list |-> <<<<12456, 12524, 12460, 12531, 12488>>, <<39640, 32026>>>>],
    \* r"ホラー|恐怖|horror|怖い|おどろおどろ" -> クール, デザイン
    [alts |-> {<<12507, 12521, 12540>>,
              <<24656, 24598>>,
              <<104, 111, 114, 114, 111, 114>>,
              <<24598, 12356>>,
              <<12362, 12393, 12429, 12362, 12393, 12429>>},
     tag_list |-> <<<<12463, 12540, 12523>>, <<12487, 12470, 12452, 12531>>>>],
    \* r"モダン|modern|スタイリッシュ|stylish|洗練" -> モダン
    [alts |-> {<<12514, 12480, 12531>>,
              <<109, 111, 100, 101, 114, 110>>,
              <<12473, 12479, 12452, 12522, 12483, 12471, 12517>>,
              <<115, 116, 121, 108, 105, 115, 104>>,
              <<27927, 32244>>},
     tag_list |-> <<<<12514, 12480, 12531>>>>],
    \* r"フォーマル|formal|ビジネス|business|公式" -> フォーマル, ビジネス
    [alts |-> {<<12501, 12457, 12540, 12510, 12523>>,
              <<102, 111, 114, 109, 97, 108>>,
              <<12499, 12472, 12493, 12473>>,
              <<98, 117, 115, 105, 110, 101, 115, 115>>,
              <<20844, 24335>>},
     tag_list |-> <<<<12501, 12457, 12540, 12510, 12523>>, <<12499, 12472, 12493, 12473>>>>],
    \* r"ナチュラル|natural|自然|organic|やさし|優し" -> ナチュラル
    [alts |-> {<<12490, 12481, 12517, 12521, 12523>>,
              <<110, 97, 116, 117, 114, 97, 108>>,
              <<33258, 28982>>,
              <<111, 114, 103, 97, 110, 105, 99>>,
              <<12420, 12373, 12375>>,
              <<20778, 12375>>},
     tag_list |-> <<<<12490, 12481, 12517, 12521, 12523>>>>],
    \* r"クール|cool|シャープ|sharp|鋭い" -> クール
    [alts |-> {<<12463, 12540, 12523>>,
              <<99, 111, 111, 108>>,
              <<12471, 12515, 12540, 12503>>,
              <<115, 104, 97, 114, 112>>,
              <<37613, 12356>>},
     tag_list |-> <<<<12463, 12540, 12523>>>>],
    \* r"テクノ|tech|digital|デジタル|未来|futur" -> テクノ
    [alts |-> {<<12486, 12463, 12494>>,
              <<116, 101, 99, 104>>,
              <<100, 105, 103, 105, 116, 97, 108>>,
              <<12487, 12472, 12479, 12523>>,
              <<26410, 26469>>,
              <<102, 117, 116, 117, 114>>},
     tag_list |-> <<<<12486, 12463, 12494>>>>],
    \* r"読みやすい|legible|readable|視認|ユニバーサル|UD" -> 読みやすい
    [alts |-> {<<35501, 12415, 12420, 12377, 12356>>,
              <<108, 101, 103, 105, 98, 108, 101>>,
              <<114, 101, 97, 100, 97, 98, 108, 101>>,
              <<35222, 35469>>,
              <<12518, 12491, 12496, 12540, 12469, 12523>>,
              <<85, 68>>},
     tag_list |-> <<<<35501, 12415, 12420, 12377, 12356>>>>],
    \* r"細[字い]|thin|light|細め|ライト" -> 細字
    [alts |-> {<<32048, 23383>>,
              <<32048, 12356>>,
              <<116, 104, 105, 110>>,
              <<108, 105, 103, 104, 116>>,
              <<32048, 12417>>,
              <<12521, 12452, 12488>>},
     tag_list |-> <<<<32048, 23383>>>>],
    \* r"太字|bold|heavy|太め|ヘビー|ブラック|black" -> 太字
    [alts |-> {<<22826, 23383>>,
              <<98, 111, 108, 100>>,
              <<104, 101, 97, 118, 121>>,
              <<22826, 12417>>,
              <<12504, 12499, 12540>>,
              <<12502, 12521, 12483, 12463>>,
              <<98, 108, 97, 99, 107>>},
     tag_list |-> <<<<22826, 23383>>>>],
    \* r"ニュース|news|速報|テロップ|telop" -> ニュース
    [alts |-> {<<12491, 12517, 12540, 12473>>,
              <<110, 101, 119, 115>>,
              <<36895, 22577>>,
              <<12486, 12525, 12483, 12503>>,
              <<116, 101, 108, 111, 112>>},
     tag_list |-> <<<<12491, 12517, 12540, 12473>>>>],
    \* r"デザイン|design|装飾|decorat|アート|art" -> デザイン
    [alts |-> {<<12487, 12470, 12452, 12531>>,
              <<100, 101, 115, 105, 103, 110>>,
              <<35013, 39166>>,
              <<100, 101, 99, 111, 114, 97, 116>>,
              <<12450, 12540, 12488>>,
              <<97, 114, 116>>},
     tag_list |-> <<<<12487, 12470, 12452, 12531>>>>]
    >>

\* src line 101: extra tags contributed by source-site categories.
CATEGORY_EXTRA_TAGS == <<
    \* "kawaii": かわいい, ポップ
    [key |-> <<107, 97, 119, 97, 105, 105>>, tag_list |-> <<<<12363, 12431, 12356, 12356>>, <<12509, 12483, 12503>>>>],
    \* "pop": ポップ, カジュアル
    [key |-> <<112, 111, 112>>, tag_list |-> <<<<12509, 12483, 12503>>, <<12459, 12472, 12517, 12450, 12523>>>>],
    \* "marugo": かわいい
    [key |-> <<109, 97, 114, 117, 103, 111>>, tag_list |-> <<<<12363, 12431, 12356, 12356>>>>],
    \* "round": かわいい
    [key |-> <<114, 111, 117, 110, 100>>, tag_list |-> <<<<12363, 12431, 12356, 12356>>>>],
    \* "fude": 力強い
    [key |-> <<102, 117, 100, 101>>, tag_list |-> <<<<21147, 24375, 12356>>>>],
    \* "brush": 力強い
    [key |-> <<98, 114, 117, 115, 104>>, tag_list |-> <<<<21147, 24375, 12356>>>>],
    \* "tegaki": 手書き風, カジュアル
    [key |-> <<116, 101, 103, 97, 107, 105>>, tag_list |-> <<<<25163, 26360, 12365, 39080>>, <<12459, 12472, 12517, 12450, 12523>>>>],
    \* "handwriting": 手書き風
    [key |-> <<104, 97, 110, 100, 119, 114, 105, 116, 105, 110, 103>>, tag_list |-> <<<<25163, 26360, 12365, 39080>>>>],
    \* "horror": クール, デザイン
    [key |-> <<104, 111, 114, 114, 111, 114>>, tag_list |-> <<<<12463, 12540, 12523>>, <<12487, 12470, 12452, 12531>>>>],
    \* "pixel": レトロ, テクノ
    [key |-> <<112, 105, 120, 101, 108>>, tag_list |-> <<<<12524, 12488, 12525>>, <<12486, 12463, 12494>>>>],
    \* "dot": レトロ, テクノ
    [key |-> <<100, 111, 116>>, tag_list |-> <<<<12524, 12488, 12525>>, <<12486, 12463, 12494>>>>]
    >>

\* src line 161: default tags per inferred category.
fallback_tags == <<
    \* "sans": 読みやすい, モダン
    [key |-> "sans", tag_list |-> <<<<35501, 12415, 12420, 12377, 12356>>, <<12514, 12480, 12531>>>>],
    \* "serif": エレガント, フォーマル
    [key |-> "serif", tag_list |-> <<<<12456, 12524, 12460, 12531, 12488>>, <<12501, 12457, 12540, 12510, 12523>>>>],
    \* "display": デザイン, インパクト
    [key |-> "display", tag_list |-> <<<<12487, 12470, 12452, 12531>>, <<12452, 12531, 12497, 12463, 12488>>>>],
    \* "handwriting": 手書き風, カジュアル
    [key |-> "handwriting", tag_list |-> <<<<25163, 26360, 12365, 39080>>, <<12459, 12472, 12517, 12450, 12523>>>>],
    \* "monospace": テクノ, モダン
    [key |-> "monospace", tag_list |-> <<<<12486, 12463, 12494>>, <<12514, 12480, 12531>>>>]
    >>

\* dict lookup in a table of [key, ...] entries
HasKey(table, key) == \E i \in 1..Len(table) : table[i].key = key
Entry(table, key)  == table[CHOOSE i \in 1..Len(table) : table[i].key = key]

-----------------------------------------------------------------------------
(* Logic *)

\* The list a "for cat in (font.get("categories") or [])" loop iterates.
CategoriesOf(font) ==
    LET cats == Get(font, "categories", JNull)
    IN  IF Truthy(cats) THEN cats.v ELSE <<>>

\* InferFromCategories with the lookup done on the lower-cased entry as it
\* stands, not stripped.
RECURSIVE InferFromCategories_unstripped(_)
InferFromCategories_unstripped(cats) ==
    IF cats = <<>> THEN Return("")
    ELSE IF Head(cats).t # "str" THEN Raise("AttributeError")
    ELSE LET cat_lower == Lower(Head(cats).v)
         IN  IF HasKey(FONTFREE_CATEGORY_MAP, cat_lower)
             THEN Return(Entry(FONTFREE_CATEGORY_MAP, cat_lower).category)
             ELSE InferFromCategories_unstripped(Tail(cats))

\* Step 1 of infer_category (src lines 123-126): the first entry, in input
\* order, whose lower-cased and stripped text is a key of the table.
\* An entry that is not text has no lower().  Return("") stands for the
\* loop running to its end without returning.
RECURSIVE InferFromCategories(_)
InferFromCategories(cats) ==
    IF cats = <<>> THEN Return("")
    ELSE IF Head(cats).t # "str" THEN Raise("AttributeError")
    ELSE LET cat_lower == Strip(Lower(Head(cats).v))
         IN  IF HasKey(FONTFREE_CATEGORY_MAP, cat_lower)
             THEN Return(Entry(FONTFREE_CATEGORY_MAP, cat_lower).category)
             ELSE InferFromCategories(Tail(cats))

\* InferFromRules with sans, not display, as the default.
RECURSIVE InferFromRules_sansdefault(_, _)
InferFromRules_sansdefault(rules, combined) ==
    IF rules = <<>> THEN "sans"
    ELSE IF Search(Head(rules).alts, combined) THEN Head(rules).category
    ELSE InferFromRules_sansdefault(Tail(rules), combined)

\* Step 2 of infer_category (src lines 132-134): first rule that matches.
RECURSIVE InferFromRules(_, _)
InferFromRules(rules, combined) ==
    IF rules = <<>> THEN "display"
    ELSE IF Search(Head(rules).alts, combined) THEN Head(rules).category
    ELSE InferFromRules(Tail(rules), combined)

infer_category(font) ==
    LET byCat == InferFromCategories(CategoriesOf(font))
        name == Get(font, "name", JStr(<<>>))
        desc == Get(font, "description", JStr(<<>>))
        combined == Format(name) \o <<32>> \o Format(desc)
    IN  IF byCat.kind = "raise" THEN byCat
        ELSE IF byCat.val # "" THEN byCat
        ELSE Return(InferFromRules(NAME_CATEGORY_RULES, combined))

\* src lines 148-150
RECURSIVE TagsFromRules(_, _)
TagsFromRules(rules, combined) ==
    IF rules = <<>> THEN {}
    ELSE (IF Search(Head(rules).alts, combined)
          THEN {Head(rules).tag_list[i] : i \in 1..Len(Head(rules).tag_list)}
          ELSE {})
         \cup TagsFromRules(Tail(rules), combined)

\* src lines 153-156
RECURSIVE TagsFromCategories(_)
TagsFromCategories(cats) ==
    IF cats = <<>> THEN Return({})
    ELSE IF Head(cats).t # "str" THEN Raise("AttributeError")
    ELSE LET cat_lower == Strip(Lower(Head(cats).v))
             rest == TagsFromCategories(Tail(cats))
             here == IF HasKey(CATEGORY_EXTRA_TAGS, cat_lower)
                     THEN LET l == Entry(CATEGORY_EXTRA_TAGS, cat_lower).tag_list
                          IN  {l[i] : i \in 1..Len(l)}
                     ELSE {}
         IN  IF rest.kind = "raise" THEN rest ELSE Return(here \cup rest.val)

\* FallbackTags that supplies nothing.
FallbackTags_none(category) == {}

\* src lines 159-168
FallbackTags(category) ==
    LET l == IF HasKey(fallback_tags, category)
             THEN Entry(fallback_tags, category).tag_list
             ELSE << <<12487, 12470, 12452, 12531>> >>       \* ["デザイン"]
    IN  {l[i] : i \in 1..Len(l)}

\* sorted(tags) for a set of text: ascending by code points
RECURSIVE Sorted(_)
Sorted(S) ==
    IF S = {} THEN <<>>
    ELSE LET least == CHOOSE x \in S : \A y \in S : x = y \/ StrLess(x, y)
         IN  <<least>> \o Sorted(S \ {least})

\* "x or ''" for a text field
OrEmpty(x) == IF Truthy(x) THEN x ELSE JStr(<<>>)

extract_tags(font) ==
    LET desc == OrEmpty(Get(font, "description", JStr(<<>>)))
        name == OrEmpty(Get(font, "name", JStr(<<>>)))
        combined == Format(name) \o <<32>> \o Format(desc)
        fromRules == TagsFromRules(TAG_RULES, combined)
        fromCats == TagsFromCategories(CategoriesOf(font))
    IN  IF fromCats.kind = "raise" THEN fromCats
        ELSE LET tags == fromRules \cup fromCats.val
             IN  IF tags # {} THEN Return(Sorted(tags))
                 ELSE LET category == infer_category(font)
                      IN  IF category.kind = "raise" THEN category
                          ELSE Return(Sorted(FallbackTags(category.val)))

\* compute_popularity with > where the code has >=.
compute_popularity_strict(font) ==
    LET sc == Get(font, "source_count", JInt(1))
    IN  IF sc.t # "int" THEN Raise("TypeError")
        ELSE IF sc.v > 3 THEN Return(7)
        ELSE IF sc.v > 2 THEN Return(5)
        ELSE Return(3)

\* src lines 173-181; None >= 3 is a TypeError
compute_popularity(font) ==
    LET sc == Get(font, "source_count", JInt(1))
    IN  IF sc.t # "int" THEN Raise("TypeError")
        ELSE IF sc.v >= 3 THEN Return(7)
        ELSE IF sc.v >= 2 THEN Return(5)
        ELSE Return(3)

\* src lines 197-211: the output record of a record that passed the filter
BuildRecord(font, name, local_file) ==
    LET category == infer_category(font)
        tags == extract_tags(font)
        popularity == compute_popularity(font)
    IN  IF category.kind = "raise" THEN category
        ELSE IF tags.kind = "raise" THEN tags
        ELSE IF popularity.kind = "raise" THEN popularity
        ELSE Return([name |-> name,
                     fontFamily |-> name,
                     localFile |-> local_file,
                     category |-> category.val,
                     tags |-> tags.val,
                     weight |-> <<400, 400>>,
                     popularity |-> popularity.val,
                     description |-> OrEmpty(Get(font, "description", JStr(<<>>))),
                     sourceCount |-> Get(font, "source_count", JInt(1))])

\* enrich_font without the check of local_file.
enrich_font_nolocalcheck(font) ==
    LET local_file == Get(font, "local_file", JNull)
        rawname == Get(font, "name", JStr(<<>>))
    IN  IF ~Truthy(Get(font, "downloaded", JBool(FALSE))) THEN Return(None)
        ELSE IF rawname.t # "str" THEN Raise("AttributeError")
        ELSE IF Strip(rawname.v) = <<>> THEN Return(None)
        ELSE BuildRecord(font, Strip(rawname.v), local_file)

\* src lines 184-195, then BuildRecord; None.strip() is an AttributeError
enrich_font(font) ==
    LET local_file == Get(font, "local_file", JNull)
        rawname == Get(font, "name", JStr(<<>>))
    IN  IF ~Truthy(Get(font, "downloaded", JBool(FALSE))) THEN Return(None)
        ELSE IF ~Truthy(local_file) THEN Return(None)
        ELSE IF rawname.t # "str" THEN Raise("AttributeError")
        ELSE IF Strip(rawname.v) = <<>> THEN Return(None)
        ELSE BuildRecord(font, Strip(rawname.v), local_file)

-----------------------------------------------------------------------------
(* main *)

\* src line 253: number of entries kept in stats.topTags
TopN == 15

\* Order of two sort keys.  A key is <<number, text>>, compared as Python
\* compares tuples: by the number, then by the text.
KeyBefore(a, b) ==
    \/ a[1] < b[1]
    \/ a[1] = b[1] /\ StrLess(a[2], b[2])

\* InsertStable that puts an item ahead of the items with an equal key.
RECURSIVE InsertStable_unstable(_, _)
InsertStable_unstable(s, x) ==
    IF s = <<>> THEN <<x>>
    ELSE IF ~KeyBefore(Head(s).key, x.key) THEN <<x>> \o s
    ELSE <<Head(s)>> \o InsertStable_unstable(Tail(s), x)

\* list.sort(key=...) and sorted(..., key=...): a stable sort of the items
\* of s, each paired with its key.
RECURSIVE InsertStable(_, _)
InsertStable(s, x) ==
    IF s = <<>> THEN <<x>>
    ELSE IF KeyBefore(x.key, Head(s).key) THEN <<x>> \o s
    ELSE <<Head(s)>> \o InsertStable(Tail(s), x)

RECURSIVE SortDecorated(_)
SortDecorated(s) ==
    IF s = <<>> THEN <<>>
    ELSE InsertStable(SortDecorated(SubSeq(s, 1, Len(s) - 1)), s[Len(s)])

\* src line 234: enriched.sort(key=lambda f: (-f["popularity"], f["name"]))
SortFonts(fonts) ==
    LET decorated == [i \in 1..Len(fonts) |->
                        [key |-> <<0 - fonts[i].popularity, fonts[i].name>>,
                         item |-> fonts[i]]]
        s == SortDecorated(decorated)
    IN  [i \in 1..Len(s) |-> s[i].item]

\* src line 253: sorted(tag_counts.items(), key=lambda x: -x[1])
SortCounts(counts) ==
    LET decorated == [i \in 1..Len(counts) |->
                        [key |-> <<0 - counts[i].count, <<>>>>,
                         item |-> counts[i]]]
        s == SortDecorated(decorated)
    IN  [i \in 1..Len(s) |-> s[i].item]

\* counts[k] = counts.get(k, 0) + 1 on a dict that keeps insertion order
Incr(counts, k) ==
    IF HasKey(counts, k)
    THEN [i \in 1..Len(counts) |->
            IF counts[i].key = k
            THEN [key |-> k, count |-> counts[i].count + 1]
            ELSE counts[i]]
    ELSE Append(counts, [key |-> k, count |-> 1])

RECURSIVE IncrAll(_, _)
IncrAll(counts, keys) ==
    IF keys = <<>> THEN counts
    ELSE IncrAll(Incr(counts, Head(keys)), Tail(keys))

\* src lines 237-243
RECURSIVE CatCounts(_, _)
CatCounts(counts, es) ==
    IF es = <<>> THEN counts
    ELSE CatCounts(Incr(counts, Head(es).category), Tail(es))

RECURSIVE TagCounts(_, _)
TagCounts(counts, es) ==
    IF es = <<>> THEN counts
    ELSE TagCounts(IncrAll(counts, Head(es).tags), Tail(es))

\* TopTags that takes the first entries without sorting them.
TopTags_unsorted(counts) ==
    SubSeq(counts, 1, IF Len(counts) < TopN THEN Len(counts) ELSE TopN)

\* src line 253: dict(sorted(tag_counts.items(), key=lambda x: -x[1])[:15])
TopTags(counts) ==
    LET s == SortCounts(counts)
    IN  SubSeq(s, 1, IF Len(s) < TopN THEN Len(s) ELSE TopN)

\* Output whose total counts every input record.
Output_totalall ==
    [stats |-> [total |-> Len(fonts_raw.v),
                skipped |-> skipped,
                categories |-> cat_counts,
                topTags |-> TopTags(tag_counts)],
     fonts |-> enriched]

\* src lines 245-256
Output ==
    [stats |-> [total |-> Len(enriched),
                skipped |-> skipped,
                categories |-> cat_counts,
                topTags |-> TopTags(tag_counts)],
     fonts |-> enriched]

\* json.dump(..., ensure_ascii=False) into a UTF-8 text file fails on the
\* first text that holds a lone surrogate; the rule tables hold none, so
\* only the fields carried through from the input can.
Encodable(e) ==
    /\ ~HasSurrogate(e.name)
    /\ e.localFile.t = "str" => ~HasSurrogate(e.localFile.v)
    /\ e.description.t = "str" => ~HasSurrogate(e.description.v)

\* An uncaught exception: traceback, exit status 1.
Abort(exc) ==
    /\ pc' = "aborted"
    /\ exit_status' = 1
    /\ error' = exc

\* src lines 215-217
CheckExists ==
    /\ pc = "start"
    /\ IF in_file.kind = "missing"
       THEN /\ pc' = "exited"
            /\ exit_status' = 1
            /\ error' = "not found"
       ELSE /\ pc' = "load"
            /\ UNCHANGED <<exit_status, error>>
    /\ UNCHANGED <<in_file, out_file, fonts_raw, idx, enriched, skipped,
                   cat_counts, tag_counts, fn_vars>>

\* src lines 219-224
LoadCatalog ==
    /\ pc = "load"
    /\ IF in_file.kind = "malformed"
       THEN /\ Abort("JSONDecodeError")
            /\ UNCHANGED <<fonts_raw, enriched, skipped>>
       ELSE /\ fonts_raw' = Get(in_file.doc, "fonts", JList(<<>>))
            /\ enriched' = <<>>
            /\ skipped' = 0
            /\ pc' = "loop"
            /\ UNCHANGED <<exit_status, error>>
    /\ UNCHANGED <<in_file, out_file, idx, cat_counts, tag_counts, fn_vars>>

\* src lines 226-231: one iteration of the loop
LoopStep ==
    /\ pc = "loop"
    /\ IF fonts_raw.t # "list"
       THEN /\ Abort("TypeError")
            /\ UNCHANGED <<idx, enriched, skipped>>
       ELSE /\ idx < Len(fonts_raw.v)
            /\ LET result == enrich_font(fonts_raw.v[idx + 1])
               IN  IF result.kind = "raise"
                   THEN /\ Abort(result.exc)
                        /\ UNCHANGED <<idx, enriched, skipped>>
                   ELSE /\ idx' = idx + 1
                        /\ IF result.val # None
                           THEN /\ enriched' = Append(enriched, result.val)
                                /\ UNCHANGED skipped
                           ELSE /\ skipped' = skipped + 1
                                /\ UNCHANGED enriched
                        /\ UNCHANGED <<pc, exit_status, error>>
    /\ UNCHANGED <<in_file, out_file, fonts_raw, cat_counts, tag_counts, fn_vars>>

\* src line 234, reached when the loop is exhausted
SortEnriched ==
    /\ pc = "loop"
    /\ fonts_raw.t = "list"
    /\ idx = Len(fonts_raw.v)
    /\ enriched' = SortFonts(enriched)
    /\ pc' = "stats"
    /\ UNCHANGED <<in_file, out_file, fonts_raw, idx, skipped, cat_counts,
                   tag_counts, exit_status, error, fn_vars>>

\* src lines 237-243
ComputeStats ==
    /\ pc = "stats"
    /\ cat_counts' = CatCounts(<<>>, enriched)
    /\ tag_counts' = TagCounts(<<>>, enriched)
    /\ pc' = "write"
    /\ UNCHANGED <<in_file, out_file, fonts_raw, idx, enriched, skipped,
                   exit_status, error, fn_vars>>

\* src line 258: open(OUTPUT_PATH, "w") truncates the file
OpenOutput ==
    /\ pc = "write"
    /\ out_file' = [state |-> "open"]
    /\ pc' = "dump"
    /\ UNCHANGED <<in_file, fonts_raw, idx, enriched, skipped, cat_counts,
                   tag_counts, exit_status, error, fn_vars>>

\* src lines 259-264: json.dump writes the document piece by piece; what was
\* written before a failing piece stays in the file.
DumpOutput ==
    /\ pc = "dump"
    /\ IF \A i \in 1..Len(enriched) : Encodable(enriched[i])
       THEN /\ out_file' = [state |-> "complete", doc |-> Output]
            /\ pc' = "done"
            /\ exit_status' = 0
            /\ UNCHANGED error
       ELSE /\ out_file' = [state |-> "partial"]
            /\ Abort("UnicodeEncodeError")
    /\ UNCHANGED <<in_file, fonts_raw, idx, enriched, skipped, cat_counts,
                   tag_counts, fn_vars>>

-----------------------------------------------------------------------------
(* Direct calls of the per-record functions *)

CallInferCategory ==
    /\ fn_name = ""
    /\ fn_name' = "infer_category"
    /\ fn_result' = infer_category(fn_font)
    /\ UNCHANGED <<fn_font, main_vars>>

CallExtractTags ==
    /\ fn_name = ""
    /\ fn_name' = "extract_tags"
    /\ fn_result' = extract_tags(fn_font)
    /\ UNCHANGED <<fn_font, main_vars>>

CallComputePopularity ==
    /\ fn_name = ""
    /\ fn_name' = "compute_popularity"
    /\ fn_result' = compute_popularity(fn_font)
    /\ UNCHANGED <<fn_font, main_vars>>

CallEnrichFont ==
    /\ fn_name = ""
    /\ fn_name' = "enrich_font"
    /\ fn_result' = enrich_font(fn_font)
    /\ UNCHANGED <<fn_font, main_vars>>

-----------------------------------------------------------------------------
(* Inputs *)

\* Largest source_count that is enumerated.
MaxSourceCount == 4

FileA == JStr(<<97, 46, 116, 116, 102>>)     \* "a.ttf"
FileB == JStr(<<98, 46, 116, 116, 102>>)     \* "b.ttf"

\* "手書昭和丸み太い上品恐怖": fires six tag rules, ten tags
DescA == JStr(<<25163, 26360, 26157, 21644, 20024, 12415, 22826, 12356,
                19978, 21697, 24656, 24598>>)
\* "洗練公式自然未来UD太い": fires six tag rules, eight tags
DescB == JStr(<<27927, 32244, 20844, 24335, 33258, 28982, 26410, 26469,
                85, 68, 22826, 12356>>)

\* Records of the catalogs main() is run on.
Records ==
    { \* name "B", three sources
      [name |-> JStr(<<66>>), downloaded |-> JBool(TRUE), local_file |-> FileA,
       source_count |-> JInt(3), description |-> DescA],
      \* name "A", no source_count
      [name |-> JStr(<<65>>), downloaded |-> JBool(TRUE), local_file |-> FileA,
       description |-> DescB],
      \* name " A", categories ["Gothic "]
      [name |-> JStr(<<32, 65>>), downloaded |-> JBool(TRUE), local_file |-> FileB,
       source_count |-> JInt(2), categories |-> JList(<<JStr(<<71, 111, 116, 104, 105, 99, 32>>)>>)],
      \* name "　A ", description and categories null
      [name |-> JStr(<<12288, 65, 32>>), downloaded |-> JBool(TRUE), local_file |-> FileB,
       source_count |-> JInt(1), description |-> JNull, categories |-> JNull],
      \* name "B", four sources, empty description and categories
      [name |-> JStr(<<66>>), downloaded |-> JBool(TRUE), local_file |-> FileB,
       source_count |-> JInt(4), description |-> JStr(<<>>), categories |-> JList(<<>>)],
      \* not downloaded
      [name |-> JStr(<<65>>), downloaded |-> JBool(FALSE), local_file |-> FileA,
       source_count |-> JInt(3)],
      \* only a name
      [name |-> JStr(<<65>>)],
      \* empty local_file
      [name |-> JStr(<<65>>), downloaded |-> JBool(TRUE), local_file |-> JStr(<<>>)],
      \* blank name
      [name |-> JStr(<<32>>), downloaded |-> JBool(TRUE), local_file |-> FileA],
      \* name null
      [name |-> JNull, downloaded |-> JBool(TRUE), local_file |-> FileA],
      \* source_count null
      [name |-> JStr(<<65>>), downloaded |-> JBool(TRUE), local_file |-> FileA,
       source_count |-> JNull],
      \* name "A\ud800": a lone surrogate, as json.load yields for the escape
      [name |-> JStr(<<65, 55296>>), downloaded |-> JBool(TRUE), local_file |-> FileA]
    }

RECURSIVE SeqsUpTo(_, _)
SeqsUpTo(S, n) ==
    IF n = 0 THEN {<<>>}
    ELSE LET shorter == SeqsUpTo(S, n - 1)
         IN  shorter \cup {Append(s, x) : s \in {t \in shorter : Len(t) = n - 1}, x \in S}

\* What the input path can hold.
InFiles ==
    {[kind |-> "missing"], [kind |-> "malformed"]}
    \cup {[kind |-> "json", doc |-> [version |-> JInt(2)]]}
    \cup {[kind |-> "json", doc |-> [fonts |-> JNull]]}
    \cup {[kind |-> "json", doc |-> [fonts |-> JList(fs)]] : fs \in SeqsUpTo(Records, MaxFonts)}

\* Field values of the records the functions are called on directly.
\* Absent stands for a key that is not in the record.
Absent == [t |-> "absent"]

FnNames ==
    {Absent, JNull, JStr(<<>>),
     JStr(<<65>>),                                         \* "A"
     JStr(<<12414, 12427, 12418, 12376>>),                 \* "まるもじ"
     JStr(<<20024, 12418, 12376>>),                        \* "丸もじ"
     JStr(<<77, 97, 114, 117, 32, 77, 111, 110, 111>>),    \* "Maru Mono"
     JStr(<<12486, 12473, 12488, 35282, 12468, 12471, 12483, 12463>>)}  \* "テスト角ゴシック"

FnDescriptions ==
    {Absent, JNull, JStr(<<>>), DescA, DescB,
     JStr(<<21147, 24375, 12356, 12468, 12471, 12483, 12463, 20307>>),  \* "力強いゴシック体"
     JStr(<<84, 101, 103, 97, 107, 105, 32, 99, 111, 100, 101>>)}       \* "Tegaki code"

FnCategories ==
    {Absent, JNull, JList(<<>>),
     JList(<<JStr(<<103, 111, 116, 104, 105, 99>>)>>),                  \* ["gothic"]
     JList(<<JStr(<<117, 110, 107, 110, 111, 119, 110>>),
             JStr(<<32, 77, 73, 78, 67, 72, 79>>),
             JStr(<<107, 97, 119, 97, 105, 105>>)>>),                   \* ["unknown", " MINCHO", "kawaii"]
     JList(<<JStr(<<107, 97, 119, 97, 105, 105>>),
             JStr(<<103, 111, 116, 104, 105, 99>>)>>),                  \* ["kawaii", "gothic"]
     JList(<<JStr(<<117, 110, 107, 110, 111, 119, 110>>)>>),            \* ["unknown"]
     JList(<<JNull>>)}                                                  \* [null]

FnSourceCounts == {Absent, JNull} \cup {JInt(n) : n \in 0..MaxSourceCount}

FnDownloaded == {Absent, JNull, JBool(TRUE), JBool(FALSE)}

FnLocalFiles == {Absent, JNull, JStr(<<>>), FileA}

\* The record with the given fields, leaving out the absent ones.
MakeFont(name, description, categories, downloaded, local_file, source_count) ==
    LET all == [name |-> name, description |-> description,
                categories |-> categories, downloaded |-> downloaded,
                local_file |-> local_file, source_count |-> source_count]
        keys == {k \in DOMAIN all : all[k] # Absent}
    IN  [k \in keys |-> all[k]]

\* Downloaded records that vary in their text, and records with the same
\* text that vary in the fields the filter reads.
FnFonts ==
    {MakeFont(n, d, c, JBool(TRUE), FileA, sc) :
        n \in FnNames, d \in FnDescriptions, c \in FnCategories,
        sc \in FnSourceCounts}
    \cup
    {MakeFont(n, Absent, Absent, dl, lf, sc) :
        n \in FnNames, dl \in FnDownloaded, lf \in FnLocalFiles,
        sc \in FnSourceCounts}

-----------------------------------------------------------------------------
(* Specifications *)

MainIdle ==
    /\ out_file = [state |-> "untouched"]
    /\ fonts_raw = JNull
    /\ idx = 0
    /\ enriched = <<>>
    /\ skipped = 0
    /\ cat_counts = <<>>
    /\ tag_counts = <<>>
    /\ exit_status = -1
    /\ error = ""

\* A run of main() on some input file.
Init ==
    /\ in_file \in InFiles
    /\ pc = "start"
    /\ MainIdle
    /\ fn_font = [name |-> JNull]
    /\ fn_name = ""
    /\ fn_result = Return(None)

Next ==
    \/ CheckExists
    \/ LoadCatalog
    \/ LoopStep
    \/ SortEnriched
    \/ ComputeStats
    \/ OpenOutput
    \/ DumpOutput

Spec == Init /\ [][Next]_vars

\* One direct call of a per-record function on some record.
InitFn ==
    /\ in_file = [kind |-> "missing"]
    /\ pc = "idle"
    /\ MainIdle
    /\ fn_font \in FnFonts
    /\ fn_name = ""
    /\ fn_result = Return(None)

NextFn ==
    \/ CallInferCategory
    \/ CallExtractTags
    \/ CallComputePopularity
    \/ CallEnrichFont

SpecFn == InitFn /\ [][NextFn]_vars


-----------------------------------------------------------------------------
(* Properties *)

Min(a, b) == IF a < b THEN a ELSE b


\* The filter as the catalog contract states it: downloaded is true,
\* local_file is present and non-empty, name is non-empty once trimmed.
Keep(font) ==
    /\ "downloaded" \in DOMAIN font /\ font.downloaded = JBool(TRUE)
    /\ "local_file" \in DOMAIN font /\ font.local_file.t = "str"
    /\ font.local_file.v # <<>>
    /\ "name" \in DOMAIN font /\ font.name.t = "str"
    /\ \E i \in 1..Len(font.name.v) : ~IsSpace(font.name.v[i])

\* The loop has started on a "fonts" array.
InLoopOrAfter ==
    /\ pc \in {"loop", "stats", "write", "dump", "done", "aborted"}
    /\ fonts_raw.t = "list"

\* What ties an output record to the input record it was made from.
InIdent(font) ==
    <<Strip(font.name.v), font.local_file, Get(font, "source_count", JInt(1)),
      OrEmpty(Get(font, "description", JStr(<<>>)))>>
OutIdent(e) == <<e.name, e.localFile, e.sourceCount, e.description>>

KeptUpTo(n) == {i \in 1..n : Keep(fonts_raw.v[i])}

\* C1: a record has an entry in the output iff it is downloaded, has a
\* non-empty local_file and a name that is non-empty after trimming: the
\* entries of enriched are, one for one, the consumed records that pass the
\* three checks, and a record failing one of them has none.
C1_KeptIffFilter ==
    InLoopOrAfter =>
        /\ Len(enriched) = Cardinality(KeptUpTo(idx))
        /\ \A i \in KeptUpTo(idx) :
              Cardinality({j \in 1..Len(enriched) :
                              OutIdent(enriched[j]) = InIdent(fonts_raw.v[i])})
              = Cardinality({k \in KeptUpTo(idx) :
                              InIdent(fonts_raw.v[k]) = InIdent(fonts_raw.v[i])})
        /\ \A j \in 1..Len(enriched) :
              \E i \in KeptUpTo(idx) : OutIdent(enriched[j]) = InIdent(fonts_raw.v[i])
        /\ (out_file.state = "complete" => out_file.doc.fonts = enriched)

\* A completed run that kept one record, dropped a record that only fails
\* the downloaded check and dropped a downloaded record that fails exactly
\* one of the other two checks.
C1_Witness ==
    /\ out_file.state = "complete"
    /\ Len(out_file.doc.fonts) = 1
    /\ \E i \in 1..Len(fonts_raw.v) :
          /\ Get(fonts_raw.v[i], "downloaded", JNull) = JBool(FALSE)
          /\ Get(fonts_raw.v[i], "local_file", JNull) = FileA
          /\ Get(fonts_raw.v[i], "name", JNull) = JStr(<<65>>)
    /\ \E i \in 1..Len(fonts_raw.v) :
          /\ Get(fonts_raw.v[i], "downloaded", JNull) = JBool(TRUE)
          /\ \/ /\ Get(fonts_raw.v[i], "local_file", JNull) = JStr(<<>>)
                /\ Get(fonts_raw.v[i], "name", JNull) = JStr(<<65>>)
             \/ /\ Get(fonts_raw.v[i], "local_file", JNull) = FileA
                /\ Get(fonts_raw.v[i], "name", JNull) = JStr(<<32>>)

\* C2: kept plus skipped is the number of records consumed so far during the
\* loop, and stats.total + stats.skipped is the length of the input array
\* after a completed run.
C2_CountsAddUp ==
    /\ InLoopOrAfter => Len(enriched) + skipped = idx
    /\ out_file.state = "complete" =>
          out_file.doc.stats.total + out_file.doc.stats.skipped = Len(fonts_raw.v)

\* A completed run with both kept and skipped records.
C2_Witness ==
    /\ out_file.state = "complete"
    /\ out_file.doc.stats.total > 0
    /\ out_file.doc.stats.skipped > 0
    /\ Len(fonts_raw.v) >= 2

Labels == {"sans", "serif", "handwriting", "display", "monospace"}

\* Text of a field for matching: the field's text, nothing when it is
\* missing or null.
TextOf(font, key) ==
    LET x == Get(font, key, JNull)
    IN  IF x.t = "str" THEN x.v ELSE <<>>

\* A rule fires when its pattern occurs in the name or in the description.
RuleFires(alts, font) ==
    Search(alts, TextOf(font, "name")) \/ Search(alts, TextOf(font, "description"))

CategoryHits(font) ==
    LET cats == CategoriesOf(font)
    IN  {i \in 1..Len(cats) : HasKey(FONTFREE_CATEGORY_MAP, Strip(Lower(cats[i].v)))}

NameRuleHits(font) ==
    {r \in 1..Len(NAME_CATEGORY_RULES) : RuleFires(NAME_CATEGORY_RULES[r].alts, font)}

Least(S) == CHOOSE x \in S : \A y \in S : x <= y

\* The label the three-step order prescribes.
ExpectedCategory(font) ==
    IF CategoryHits(font) # {}
    THEN Entry(FONTFREE_CATEGORY_MAP,
               Strip(Lower(CategoriesOf(font)[Least(CategoryHits(font))].v))).category
    ELSE IF NameRuleHits(font) # {}
    THEN NAME_CATEGORY_RULES[Least(NameRuleHits(font))].category
    ELSE "display"

\* C3: infer_category returns one of the five labels: that of the first
\* categories entry that is in the source-category table, else that of the
\* first name/description rule that matches, else display.
C3_InferCategoryOrder ==
    (fn_name = "infer_category" /\ fn_result.kind = "return") =>
        /\ fn_result.val \in Labels
        /\ fn_result.val = ExpectedCategory(fn_font)

\* A table hit on a later categories entry overrides a name rule that would
\* have given another label.
C3_Witness ==
    /\ fn_name = "infer_category"
    /\ fn_result = Return("serif")
    /\ Least(CategoryHits(fn_font)) = 2
    /\ NameRuleHits(fn_font) # {}
    /\ NAME_CATEGORY_RULES[Least(NameRuleHits(fn_font))].category = "sans"

SeqRange(s) == {s[i] : i \in 1..Len(s)}

\* The fixed vocabulary: every tag of the three tables.
Vocabulary ==
    UNION {SeqRange(TAG_RULES[i].tag_list) : i \in 1..Len(TAG_RULES)}
    \cup UNION {SeqRange(CATEGORY_EXTRA_TAGS[i].tag_list) : i \in 1..Len(CATEGORY_EXTRA_TAGS)}
    \cup UNION {SeqRange(fallback_tags[i].tag_list) : i \in 1..Len(fallback_tags)}

WellFormedTags(tags) ==
    /\ Len(tags) > 0
    /\ \A i \in 1..(Len(tags) - 1) : StrLess(tags[i], tags[i + 1])
    /\ \A i \in 1..Len(tags) : tags[i] \in Vocabulary

\* No tag rule and no extra-tag category matches the record.
NothingMatches(font) ==
    /\ \A r \in 1..Len(TAG_RULES) : ~RuleFires(TAG_RULES[r].alts, font)
    /\ \A i \in 1..Len(CategoriesOf(font)) :
          ~HasKey(CATEGORY_EXTRA_TAGS, Strip(Lower(CategoriesOf(font)[i].v)))

\* C4: the tags of a kept record are non-empty, strictly ascending (sorted,
\* no duplicates) and all from the fixed vocabulary, also when nothing
\* matches and the fallback supplies them.
C4_TagsWellFormed ==
    /\ (fn_name = "extract_tags" /\ fn_result.kind = "return") =>
          WellFormedTags(fn_result.val)
    /\ (fn_name = "enrich_font" /\ fn_result.kind = "return" /\ fn_result.val # None) =>
          WellFormedTags(fn_result.val.tags)

\* A kept record that nothing matches and that got its tags from the fallback.
C4_Witness ==
    /\ fn_name = "enrich_font"
    /\ fn_result.kind = "return"
    /\ fn_result.val # None
    /\ NothingMatches(fn_font)
    /\ Len(fn_result.val.tags) = 2

\* The score the scorer's table prescribes for a count.
ExpectedPopularity(n) == IF n >= 3 THEN 7 ELSE IF n = 2 THEN 5 ELSE 3

\* C5: for a source_count that is an integer or absent, compute_popularity
\* raises nothing, gives 7 for 3 and more, 5 for 2 and 3 for 1 and less or
\* when absent, and never gives a higher count a lower score.
C5_PopularityTable ==
    (/\ fn_name = "compute_popularity"
     /\ Get(fn_font, "source_count", JInt(1)).t = "int") =>
        LET n == Get(fn_font, "source_count", JInt(1)).v
        IN  /\ fn_result.kind = "return"
            /\ fn_result.val \in {3, 5, 7}
            /\ fn_result.val = ExpectedPopularity(n)
            /\ "source_count" \notin DOMAIN fn_font => fn_result.val = 3
            /\ \A m \in 0..MaxSourceCount :
                  LET other == compute_popularity([source_count |-> JInt(m)])
                  IN  /\ other.kind = "return"
                      /\ m > n => other.val >= fn_result.val
                      /\ m < n => other.val <= fn_result.val

\* The scorer was called on a record with three sources.
C5_Witness ==
    /\ fn_name = "compute_popularity"
    /\ Get(fn_font, "source_count", JNull) = JInt(3)
    /\ fn_result = Return(7)

\* The kept records in input order, as the loop collected them.
RECURSIVE Collected(_)
Collected(n) ==
    IF n = 0 THEN <<>>
    ELSE IF Keep(fonts_raw.v[n])
         THEN Append(Collected(n - 1), enrich_font(fonts_raw.v[n]).val)
         ELSE Collected(n - 1)

\* The entries of s that have the sort key of e, in their order in s.
SameKey(s, e) ==
    LET Test(x) == x.popularity = e.popularity /\ x.name = e.name
    IN  SelectSeq(s, Test)

Sorted6(fonts) ==
    \A i \in 1..(Len(fonts) - 1) :
        \/ fonts[i].popularity > fonts[i + 1].popularity
        \/ /\ fonts[i].popularity = fonts[i + 1].popularity
           /\ ~StrLess(fonts[i + 1].name, fonts[i].name)

\* C6: the output fonts are ordered by descending popularity, then by
\* ascending name; they are the kept records, and records with the same
\* popularity and name are in their input order.
C6_SortedStable ==
    out_file.state = "complete" =>
        LET fonts == out_file.doc.fonts
            kept == Collected(Len(fonts_raw.v))
        IN  /\ Sorted6(fonts)
            /\ Len(fonts) = Len(kept)
            /\ \A i \in 1..Len(kept) : SameKey(fonts, kept[i]) = SameKey(kept, kept[i])

\* A completed run whose input had a later record ahead of an earlier one in
\* the order, and two distinct records with the same popularity and name.
C6_Witness ==
    /\ out_file.state = "complete"
    /\ LET fonts == out_file.doc.fonts
           kept == Collected(Len(fonts_raw.v))
       IN  /\ fonts # kept
           /\ \E i \in 1..(Len(fonts) - 1) :
                 /\ fonts[i].popularity = fonts[i + 1].popularity
                 /\ fonts[i].name = fonts[i + 1].name
                 /\ fonts[i] # fonts[i + 1]

\* C7: a run that aborts exits with a non-zero status and leaves the output
\* path untouched.
C7_AbortLeavesOutputUntouched ==
    pc \in {"aborted", "exited"} =>
        /\ exit_status # 0
        /\ out_file.state = "untouched"

\* C8: on a parsable catalog with a fonts array, no record makes the run
\* abort, whichever of its fields are absent, null or empty.
C8_NoRecordAborts ==
    ~(/\ pc = "aborted"
      /\ in_file.kind = "json"
      /\ fonts_raw.t = "list"
      /\ error \in {"AttributeError", "TypeError"})

Marumoji == <<12414, 12427, 12418, 12376>>     \* "まるもじ"
KanjiMarumoji == <<20024, 12418, 12376>>       \* "丸もじ"

\* A kept record with the given name, no categories and no description text.
C9_Case(name) ==
    /\ fn_name = "enrich_font"
    /\ Get(fn_font, "name", JNull) = JStr(name)
    /\ "categories" \notin DOMAIN fn_font
    /\ TextOf(fn_font, "description") = <<>>
    /\ fn_result.kind = "return"
    /\ fn_result.val # None

SansDefaultTags == << <<12514, 12480, 12531>>,                   \* "モダン"
                      <<35501, 12415, 12420, 12377, 12356>> >>   \* "読みやすい"
DisplayDefaultTags == << <<12452, 12531, 12497, 12463, 12488>>,  \* "インパクト"
                         <<12487, 12470, 12452, 12531>> >>       \* "デザイン"

\* C9 as stated: the record named "まるもじ" is classified sans by the round
\* rule and gets the sans default tags.
C9_MarumojiIsSans ==
    C9_Case(Marumoji) =>
        /\ fn_result.val.category = "sans"
        /\ fn_result.val.tags = SansDefaultTags

\* C9 as amended: the round rule is on the kanji, so "まるもじ" in hiragana
\* matches no rule and gets display with the display default tags, while
\* "丸もじ" gets sans with the sans default tags.
C9_MarumojiIsDisplay ==
    /\ C9_Case(Marumoji) =>
          /\ fn_result.val.category = "display"
          /\ fn_result.val.tags = DisplayDefaultTags
          /\ NameRuleHits(fn_font) = {}
    /\ C9_Case(KanjiMarumoji) =>
          /\ fn_result.val.category = "sans"
          /\ fn_result.val.tags = SansDefaultTags
          /\ Least(NameRuleHits(fn_font)) = 3

\* enrich_font kept the record named "まるもじ".
C9_Witness == C9_Case(Marumoji) /\ fn_result.val.popularity = 3

\* Tags of the output in first-seen order: record by record, each record's
\* tags in their order.
RECURSIVE Flatten(_)
Flatten(fonts) ==
    IF fonts = <<>> THEN <<>> ELSE Head(fonts).tags \o Flatten(Tail(fonts))

FirstSeen(flat, tag) == Least({i \in 1..Len(flat) : flat[i] = tag})

Occurrences(fonts, tag) ==
    Cardinality({i \in 1..Len(fonts) : tag \in SeqRange(fonts[i].tags)})

\* C10: topTags holds min(15, distinct tags) entries, each with the number
\* of kept records that carry the tag, in descending order of count; a tag
\* left out has no higher count than one included, and among equal counts
\* the tag seen first in the sorted output comes first and is included first.
C10_TopTags ==
    out_file.state = "complete" =>
        LET fonts == out_file.doc.fonts
            top == out_file.doc.stats.topTags
            flat == Flatten(fonts)
            distinct == SeqRange(flat)
            included == {top[i].key : i \in 1..Len(top)}
        IN  /\ Len(top) = Min(15, Cardinality(distinct))
            /\ Cardinality(included) = Len(top)
            /\ included \subseteq distinct
            /\ \A i \in 1..Len(top) : top[i].count = Occurrences(fonts, top[i].key)
            /\ \A i \in 1..(Len(top) - 1) :
                  \/ top[i].count > top[i + 1].count
                  \/ /\ top[i].count = top[i + 1].count
                     /\ FirstSeen(flat, top[i].key) < FirstSeen(flat, top[i + 1].key)
            /\ \A t \in distinct \ included : \A u \in included :
                  \/ Occurrences(fonts, t) < Occurrences(fonts, u)
                  \/ /\ Occurrences(fonts, t) = Occurrences(fonts, u)
                     /\ FirstSeen(flat, u) < FirstSeen(flat, t)

\* A completed run with more than fifteen distinct tags, of unequal counts,
\* where a tag is left out that ties with one included.
C10_Witness ==
    /\ out_file.state = "complete"
    /\ LET fonts == out_file.doc.fonts
           top == out_file.doc.stats.topTags
           distinct == SeqRange(Flatten(fonts))
       IN  /\ Cardinality(distinct) > 15
           /\ Len(top) = 15
           /\ top[1].count > top[15].count
           /\ \E t \in distinct \ {top[i].key : i \in 1..Len(top)} :
                 Occurrences(fonts, t) = top[15].count

=============================================================================
